---- MODULE Spec2Model ----
(***************************************************************************)
(* Model of app.py: the Streamlit report generator.                        *)
(*                                                                         *)
(* A Python str is modelled as a sequence of one-character strings, so     *)
(* that strip, split, replace, upper and the heading regular expression    *)
(* are computed character by character, as the interpreter computes them.  *)
(* An Optional value is modelled as a sequence of length 0 (None) or 1.    *)
(***************************************************************************)
EXTENDS Integers, Sequences, FiniteSets

\* ------------------------------------------------------------------ bounds
\* longest generated text that is enumerated exhaustively
MaxLen == 4
\* longest topic that is enumerated exhaustively
MaxTopicLen == 1

\* ------------------------------------------------------- Optional values
None == << >>
Some(x) == << x >>

\* ------------------------------------------------------ Python str model
LowerLetters == <<"a", "b", "c", "d", "e", "f", "g", "h", "i", "j", "k", "l", "m", "n", "o", "p", "q", "r", "s", "t", "u", "v", "w", "x", "y", "z">>
UpperLetters == <<"A", "B", "C", "D", "E", "F", "G", "H", "I", "J", "K", "L", "M", "N", "O", "P", "Q", "R", "S", "T", "U", "V", "W", "X", "Y", "Z">>

\* str.isspace for one character
IsSpace(c) == c \in {" ", "\n", "\t", "\r", "\f"}

\* what \d matches
IsDigit(c) == c \in {"0", "1", "2", "3", "4", "5", "6", "7", "8", "9"}

\* str.upper() of one character
UpperChar(c) ==
    IF \E k \in 1..Len(LowerLetters) : LowerLetters[k] = c
    THEN UpperLetters[CHOOSE k \in 1..Len(LowerLetters) : LowerLetters[k] = c]
    ELSE c

\* str.upper()
Upper(s) == [k \in 1..Len(s) |-> UpperChar(s[k])]

RECURSIVE LStrip(_)
LStrip(s) == IF s # << >> /\ IsSpace(Head(s)) THEN LStrip(Tail(s)) ELSE s

RECURSIVE RStrip(_)
RStrip(s) ==
    IF s # << >> /\ IsSpace(s[Len(s)]) THEN RStrip(SubSeq(s, 1, Len(s) - 1)) ELSE s

\* a strip that removes trailing whitespace only, as str.rstrip()
StripTrailingOnly(s) == RStrip(s)

\* str.strip(): whitespace removed at both ends, the interior untouched
Strip(s) == RStrip(LStrip(s))

\* a split that drops the empty pieces
RECURSIVE SplitSkipEmpty(_, _)
SplitSkipEmpty(s, sep) ==
    IF s = << >> THEN << >>
    ELSE IF s[1] = sep THEN SplitSkipEmpty(Tail(s), sep)
    ELSE LET n == CHOOSE k \in 1..Len(s) :
                      /\ \A j \in 1..k : s[j] # sep
                      /\ k = Len(s) \/ s[k + 1] = sep
         IN  << SubSeq(s, 1, n) >> \o SplitSkipEmpty(SubSeq(s, n + 1, Len(s)), sep)

\* str.split(sep) for a one-character separator: always at least one piece
RECURSIVE Split(_, _)
Split(s, sep) ==
    IF \E k \in 1..Len(s) : s[k] = sep
    THEN LET p == CHOOSE k \in 1..Len(s) :
                      s[k] = sep /\ \A j \in 1..(k - 1) : s[j] # sep
         IN  << SubSeq(s, 1, p - 1) >> \o Split(SubSeq(s, p + 1, Len(s)), sep)
    ELSE << s >>

\* str.replace(old, new) for one-character old and new
Replace(s, old, new) == [k \in 1..Len(s) |-> IF s[k] = old THEN new ELSE s[k]]

\* ------------------------------------------- re.match of the heading regex
\* s is matched in full by  \d+(\.\d+)*
IsNumbering(s) ==
    /\ Len(s) >= 1
    /\ \A k \in 1..Len(s) : IsDigit(s[k]) \/ s[k] = "."
    /\ IsDigit(s[1])
    /\ IsDigit(s[Len(s)])
    /\ \A k \in 1..(Len(s) - 1) : ~(s[k] = "." /\ s[k + 1] = ".")

\* $ after position p: the end of the string, or just before a final newline
AtEnd(s, p) == p = Len(s) \/ (p = Len(s) - 1 /\ s[Len(s)] = "\n")

\* every way  ^(\d+(\.\d+)*)\s*(.*?):$  can match s:
\* group 1 is s[1..n], \s* is s[n+1..w], group 3 is s[w+1..t], ':' is s[t+1]
MatchSplits(s) ==
    { m \in (1..Len(s)) \X (1..Len(s)) \X (1..Len(s)) :
        /\ m[1] <= m[2] /\ m[2] <= m[3] /\ m[3] < Len(s)
        /\ IsNumbering(SubSeq(s, 1, m[1]))
        /\ \A k \in (m[1] + 1)..m[2] : IsSpace(s[k])
        /\ \A k \in (m[2] + 1)..m[3] : s[k] # "\n"
        /\ s[m[3] + 1] = ":"
        /\ AtEnd(s, m[3] + 1) }

\* a matcher for which the final colon is optional, r'^(\d+(\.\d+)*)\s*(.*?):?$'
HeaderMatchOptionalColon(s) ==
    IF s # << >> /\ \E n \in 1..Len(s) : IsNumbering(SubSeq(s, 1, n))
    THEN LET n == CHOOSE a \in 1..Len(s) :
                      /\ IsNumbering(SubSeq(s, 1, a))
                      /\ \A b \in 1..Len(s) : IsNumbering(SubSeq(s, 1, b)) => b <= a
         IN  Some([group1 |-> SubSeq(s, 1, n), group3 |-> SubSeq(s, n + 1, Len(s))])
    ELSE None

\* re.match(r'^(\d+(\.\d+)*)\s*(.*?):$', s): None, or the groups of the match
\* the backtracking engine finds first (greedy group 1, greedy \s*, lazy .*?)
HeaderMatch(s) ==
    IF MatchSplits(s) = {} THEN None
    ELSE LET n == CHOOSE a \in {m[1] : m \in MatchSplits(s)} :
                      \A m \in MatchSplits(s) : m[1] <= a
             w == CHOOSE a \in {m[2] : m \in {x \in MatchSplits(s) : x[1] = n}} :
                      \A m \in MatchSplits(s) : m[1] = n => m[2] <= a
             t == CHOOSE a \in {m[3] : m \in {x \in MatchSplits(s) : x[1] = n /\ x[2] = w}} :
                      \A m \in MatchSplits(s) : (m[1] = n /\ m[2] = w) => a <= m[3]
         IN  Some([group1 |-> SubSeq(s, 1, n), group3 |-> SubSeq(s, w + 1, t)])

\* numbering.count('.')
CountDots(s) == Cardinality({k \in 1..Len(s) : s[k] = "."})

\* --------------------------------------------------------- python-docx model
\* document.add_heading(text, level)
AddHeading(text, level, size) ==
    [kind |-> "heading", level |-> level, text |-> text, size |-> size, align |-> "LEFT"]

\* document.add_paragraph() without text
AddEmptyParagraph == [kind |-> "paragraph", level |-> 0, text |-> << >>, size |-> 0, align |-> "LEFT"]

\* document.add_paragraph(clean_line), justified, 12pt
AddBodyParagraph(text) ==
    [kind |-> "paragraph", level |-> 0, text |-> text, size |-> 12, align |-> "JUSTIFY"]

\* a level that follows the depth of the numbering
HeadingLevelByDepth(numbering) == CountDots(numbering) + 1

\* the level of the heading made from a matched numbering
HeadingLevel(numbering) == IF CountDots(numbering) = 0 THEN 1 ELSE 2

\* a heading whose text has no separating space when the title is empty
HeadingBlockNoTrailingSpace(m) ==
    LET numbering == m.group1
        title == Upper(Strip(m.group3))
        level == HeadingLevel(numbering)
    IN  AddHeading(IF title = << >> THEN numbering ELSE numbering \o <<" ">> \o title,
                   level, IF level = 1 THEN 16 ELSE 14)

\* the heading block made from a successful match
HeadingBlock(m) ==
    LET numbering == m.group1
        title == Upper(Strip(m.group3))
        level == HeadingLevel(numbering)
    IN  AddHeading(numbering \o <<" ">> \o title, level, IF level = 1 THEN 16 ELSE 14)

\* the block the loop body adds for one line of the text
LineBlock(line) ==
    LET clean_line == Strip(line)
    IN  IF clean_line = << >> THEN AddEmptyParagraph
        ELSE IF HeaderMatch(clean_line) # None THEN HeadingBlock(HeaderMatch(clean_line)[1])
        ELSE AddBodyParagraph(clean_line)

\* ------------------------------------------------------------------ inputs
SeqsUpTo(S, n) == UNION {[1..k -> S] : k \in 0..n}

TextAlphabet == {"1", ".", " ", ":", "a", "\n"}
TopicAlphabet == {"a", " ", "/"}

ScenarioAText == <<"1", ".", " ", "I", "n", "t", "r", "o", "d", "u", "c", "t", "i", "o", "n", ":", "\n", "\n", "T", "h", "i", "s", " ", "i", "s", " ", "b", "o", "d", "y", " ", "t", "e", "x", "t", ".", "\n", "\n", "1", ".", "1", " ", "B", "a", "c", "k", "g", "r", "o", "u", "n", "d", ":", "\n", "M", "o", "r", "e", " ", "b", "o", "d", "y", " ", "t", "e", "x", "t", ".">>
ScenarioDText == <<"N", "o", "t", " ", "a", " ", "h", "e", "a", "d", "i", "n", "g", ",", " ", "n", "o", " ", "c", "o", "l", "o", "n">>
ScenarioATopic == <<"T", "e", "s", "t">>
ScenarioCTopic == <<"A", "/", "B", " ", "T", "e", "s", "t">>

ExampleTexts ==
    { ScenarioAText, ScenarioDText,
      <<"3", ":">>, <<"3", ".", "2", ":">>, <<"3", ".", "2", ".", "1", ":">>,
      <<"2", ".", "3", ":">>, <<"a", "\n", " ", "\n", "a">>,
      <<"\n", " ", "1", " ", "a", ":", " ", "\n", "\n">>,
      <<"1", " ", "a", "\n", "a", ":", "\n", "1", " ", "a", ":">>,
      <<"\n", "a", " ", "\n", " ", "\n", "1", ":", "\n", "\n">>,
      <<" ", "\n", "a", "\n", "\n", "a", "\n">> }

\* what response.text can be
Texts == SeqsUpTo(TextAlphabet, MaxLen) \cup ExampleTexts

\* what the text input can hold
Topics == SeqsUpTo(TopicAlphabet, MaxTopicLen) \cup {ScenarioATopic, ScenarioCTopic}

\* str(e) of the exceptions the remote call and python-docx raise
GenExceptions == {"429 quota exceeded"}
DocxExceptions == {"cannot save"}

\* ------------------------------------------------------------------- state
VARIABLES
    pc,           \* position of the script run: where main or its callee stands
    secret,       \* whether st.secrets holds GOOGLE_API_KEY
    cached_model, \* st.cache_resource entry of get_gemini_model: None or the model
    model,        \* main's local: what get_gemini_model returned in this run
    topic,        \* value of the text input in this run
    calls,        \* model.generate_content calls made in this run
    report_text,  \* first value returned by generate_report_with_gemini
    error,        \* second value returned by generate_report_with_gemini
    fmt_calls,    \* text_to_word_buffer calls made in this run
    document,     \* blocks of the Document under construction
    lines,        \* text_content.strip().split('\n')
    idx,          \* position of the for loop in lines
    doc_buffer,   \* first value returned by text_to_word_buffer
    word_error,   \* second value returned by text_to_word_buffer
    ui            \* what this run has shown: st.error, st.info, st.success, st.download_button

vars == <<pc, secret, cached_model, model, topic, calls, report_text, error, fmt_calls,
          document, lines, idx, doc_buffer, word_error, ui>>

fmt_vars == <<document, lines, idx, doc_buffer, word_error>>

Shown(kind, msg) == [kind |-> kind, msg |-> msg]

GenerationError(e) ==
    <<"Report Generation Error: ", e, ". Please check your API key and input.">>

WordConversionError(e) == <<"Word Conversion Error: ", e>>

ReportSuffix == <<"_", "r", "e", "p", "o", "r", "t", ".", "d", "o", "c", "x">>

\* a file name in which only the spaces are replaced
FileNameSpacesOnly(t) == Replace(t, " ", "_") \o ReportSuffix

\* f"{topic.replace(' ', '_').replace('/', '_')}_report.docx"
FileName(t) == Replace(Replace(t, " ", "_"), "/", "_") \o ReportSuffix

Init ==
    /\ pc = "idle"
    /\ secret \in BOOLEAN
    /\ cached_model = None
    /\ model = None
    /\ topic = << >>
    /\ calls = 0
    /\ report_text = None
    /\ error = None
    /\ fmt_calls = 0
    /\ document = << >>
    /\ lines = << >>
    /\ idx = 1
    /\ doc_buffer = None
    /\ word_error = None
    /\ ui = << >>

\* ----------------------------------------------------------------- actions
\* a script run starts: main up to the model initialisation
main_start ==
    /\ pc \in {"idle", "done", "stopped"}
    /\ \E t \in Topics, clicked \in BOOLEAN :
        /\ topic' = t
        /\ IF ~clicked THEN pc' = "done" /\ ui' = << >>
           ELSE IF t = << >>
                THEN /\ pc' = "done"
                     /\ ui' = << Shown("error", <<"Please enter a project topic to begin generation.">>) >>
                ELSE pc' = "get_gemini_model" /\ ui' = << >>
    /\ model' = None
    /\ calls' = 0
    /\ report_text' = None
    /\ error' = None
    /\ fmt_calls' = 0
    /\ document' = << >>
    /\ lines' = << >>
    /\ idx' = 1
    /\ doc_buffer' = None
    /\ word_error' = None
    /\ UNCHANGED <<secret, cached_model>>

\* get_gemini_model: the cached model is returned, the function is not run
get_gemini_model_cached ==
    /\ pc = "get_gemini_model"
    /\ cached_model # None
    /\ model' = cached_model
    /\ pc' = "generate"
    /\ ui' = ui \o << Shown("info", <<"Generation started.">>) >>
    /\ UNCHANGED <<secret, cached_model, topic, calls, report_text, error, fmt_calls>>
    /\ UNCHANGED fmt_vars

\* get_gemini_model: first successful initialisation, memoised
get_gemini_model_init ==
    /\ pc = "get_gemini_model"
    /\ cached_model = None
    /\ secret
    /\ cached_model' = Some("gemini-2.5-flash")
    /\ model' = Some("gemini-2.5-flash")
    /\ pc' = "generate"
    /\ ui' = ui \o << Shown("info", <<"Generation started.">>) >>
    /\ UNCHANGED <<secret, topic, calls, report_text, error, fmt_calls>>
    /\ UNCHANGED fmt_vars

\* get_gemini_model: st.secrets has no GOOGLE_API_KEY; st.stop() ends the run
get_gemini_model_keyerror ==
    /\ pc = "get_gemini_model"
    /\ cached_model = None
    /\ ~secret
    /\ pc' = "stopped"
    /\ ui' = ui \o << Shown("error", <<"Error: GOOGLE_API_KEY not found in Streamlit secrets.">>) >>
    /\ UNCHANGED <<secret, cached_model, model, topic, calls, report_text, error, fmt_calls>>
    /\ UNCHANGED fmt_vars

\* get_gemini_model: configure or the constructor raises; st.stop() ends the run
get_gemini_model_exception ==
    /\ pc = "get_gemini_model"
    /\ cached_model = None
    /\ secret
    /\ pc' = "stopped"
    /\ ui' = ui \o << Shown("error", <<"Error configuring Gemini: ">>) >>
    /\ UNCHANGED <<secret, cached_model, model, topic, calls, report_text, error, fmt_calls>>
    /\ UNCHANGED fmt_vars

\* generate_report_with_gemini returns the text; main goes on to the conversion
generate_ok ==
    /\ pc = "generate"
    /\ \E t \in Texts : report_text' = Some(t)
    /\ calls' = calls + 1
    /\ error' = None
    /\ pc' = "text_to_word_buffer"
    /\ fmt_calls' = fmt_calls + 1
    /\ UNCHANGED <<secret, cached_model, model, topic, ui>>
    /\ UNCHANGED fmt_vars

\* a main that shows the generation error and goes on to the conversion
generate_fail_no_return ==
    /\ pc = "generate"
    /\ \E e \in GenExceptions :
        /\ error' = Some(GenerationError(e))
        /\ ui' = ui \o << Shown("error", GenerationError(e)) >>
    /\ calls' = calls + 1
    /\ report_text' = None
    /\ pc' = "text_to_word_buffer"
    /\ fmt_calls' = fmt_calls + 1
    /\ UNCHANGED <<secret, cached_model, model, topic>>
    /\ UNCHANGED fmt_vars

\* a generate_report_with_gemini that calls the model a second time on failure
generate_fail_retry ==
    /\ pc = "generate"
    /\ \E e \in GenExceptions :
        /\ error' = Some(GenerationError(e))
        /\ ui' = ui \o << Shown("error", GenerationError(e)) >>
    /\ calls' = calls + 2
    /\ report_text' = None
    /\ pc' = "done"
    /\ UNCHANGED <<secret, cached_model, model, topic, fmt_calls>>
    /\ UNCHANGED fmt_vars

\* generate_report_with_gemini catches the exception; main shows it and returns
generate_fail ==
    /\ pc = "generate"
    /\ \E e \in GenExceptions :
        /\ error' = Some(GenerationError(e))
        /\ ui' = ui \o << Shown("error", GenerationError(e)) >>
    /\ calls' = calls + 1
    /\ report_text' = None
    /\ pc' = "done"
    /\ UNCHANGED <<secret, cached_model, model, topic, fmt_calls>>
    /\ UNCHANGED fmt_vars

\* text_to_word_buffer: the title, the two empty paragraphs, the split
\* (a None text_content has no strip: that call raises, see ttwb_except)
ttwb_begin ==
    /\ pc = "text_to_word_buffer"
    /\ report_text # None
    /\ document' = << [AddHeading(Upper(topic), 0, 20) EXCEPT !.align = "CENTER"],
                      AddEmptyParagraph, AddEmptyParagraph >>
    /\ lines' = Split(Strip(report_text[1]), "\n")
    /\ idx' = 1
    /\ pc' = "for_line"
    /\ UNCHANGED <<secret, cached_model, model, topic, calls, report_text, error, fmt_calls,
                   doc_buffer, word_error, ui>>

\* one iteration of the for loop
ttwb_line ==
    /\ pc = "for_line"
    /\ idx <= Len(lines)
    /\ document' = Append(document, LineBlock(lines[idx]))
    /\ idx' = idx + 1
    /\ UNCHANGED <<pc, secret, cached_model, model, topic, calls, report_text, error, fmt_calls,
                   lines, doc_buffer, word_error, ui>>

\* the loop is over: the document is saved to the buffer and returned;
\* the locals of the call are gone
ttwb_save ==
    /\ pc = "for_line"
    /\ idx > Len(lines)
    /\ doc_buffer' = Some(document)
    /\ word_error' = None
    /\ document' = << >> /\ lines' = << >> /\ idx' = 1
    /\ pc' = "returned"
    /\ UNCHANGED <<secret, cached_model, model, topic, calls, report_text, error, fmt_calls, ui>>

\* any statement of the try block raises: except Exception returns the error;
\* the locals of the call, the unfinished document among them, are gone
ttwb_except ==
    /\ pc \in {"text_to_word_buffer", "for_line"}
    /\ \E e \in DocxExceptions : word_error' = Some(WordConversionError(e))
    /\ doc_buffer' = None
    /\ document' = << >> /\ lines' = << >> /\ idx' = 1
    /\ pc' = "returned"
    /\ UNCHANGED <<secret, cached_model, model, topic, calls, report_text, error, fmt_calls, ui>>

\* a main that shows the conversion error and offers the download all the same
main_word_error_no_return ==
    /\ pc = "returned"
    /\ word_error # None
    /\ ui' = ui \o << Shown("error", word_error[1]),
                      Shown("success", <<"Report Generation Complete!">>),
                      Shown("download", FileName(topic)) >>
    /\ pc' = "done"
    /\ UNCHANGED <<secret, cached_model, model, topic, calls, report_text, error, fmt_calls>>
    /\ UNCHANGED fmt_vars

\* main after the conversion: the error is shown and the run returns
main_word_error ==
    /\ pc = "returned"
    /\ word_error # None
    /\ ui' = ui \o << Shown("error", word_error[1]) >>
    /\ pc' = "done"
    /\ UNCHANGED <<secret, cached_model, model, topic, calls, report_text, error, fmt_calls>>
    /\ UNCHANGED fmt_vars

\* main after the conversion: success message and download button
main_download ==
    /\ pc = "returned"
    /\ word_error = None
    /\ ui' = ui \o << Shown("success", <<"Report Generation Complete!">>),
                      Shown("download", FileName(topic)) >>
    /\ pc' = "done"
    /\ UNCHANGED <<secret, cached_model, model, topic, calls, report_text, error, fmt_calls>>
    /\ UNCHANGED fmt_vars

Next ==
    \/ main_start
    \/ get_gemini_model_cached
    \/ get_gemini_model_init
    \/ get_gemini_model_keyerror
    \/ get_gemini_model_exception
    \/ generate_ok
    \/ generate_fail
    \/ ttwb_begin
    \/ ttwb_line
    \/ ttwb_save
    \/ ttwb_except
    \/ main_word_error
    \/ main_download

Spec == Init /\ [][Next]_vars

\* ================================================================ properties
\* the conversion is in its loop
InConversion == pc = "for_line"

\* the loop of the conversion has taken every line
LoopDone == pc = "for_line" /\ idx > Len(lines)

\* the conversion has returned a buffer in this run
Converted == pc \in {"returned", "done"} /\ doc_buffer # None

\* lines already turned into blocks, paired with their blocks
DoneLines == 1..(Len(document) - 3)

IsTitleBlock(b) == b.kind = "heading" /\ b.level = 0
IsHeading(b) == b.kind = "heading" /\ b.level >= 1
IsBlank(b) == b.kind = "paragraph" /\ b.text = << >>
IsBody(b) == b.kind = "paragraph" /\ b.text # << >>

\* first and last position of s that is not whitespace (0 when there is none)
FirstInk(s) ==
    IF \E k \in 1..Len(s) : ~IsSpace(s[k])
    THEN CHOOSE k \in 1..Len(s) : ~IsSpace(s[k]) /\ \A j \in 1..(k - 1) : IsSpace(s[j])
    ELSE 0
LastInk(s) ==
    IF \E k \in 1..Len(s) : ~IsSpace(s[k])
    THEN CHOOSE k \in 1..Len(s) : ~IsSpace(s[k]) /\ \A j \in (k + 1)..Len(s) : IsSpace(s[j])
    ELSE 0

\* s without its surrounding whitespace
Trimmed(s) == IF FirstInk(s) = 0 THEN << >> ELSE SubSeq(s, FirstInk(s), LastInk(s))

\* the line starts with a digits-and-dots numbering and ends with a colon:
\* the language of ^\d+(\.\d+)*\s*.*:$ on a line without line breaks
LooksLikeHeading(l) == Len(l) >= 2 /\ IsDigit(l[1]) /\ l[Len(l)] = ":"

\* C1: every non-empty trimmed line is rendered as a heading exactly when it
\* starts with a digits-and-dots numbering and ends with a colon, and as a
\* body paragraph otherwise.
C1_HeadingIffPattern ==
    InConversion =>
        \A i \in DoneLines :
            LET l == Trimmed(lines[i])
                b == document[3 + i]
            IN  l # << >> =>
                    /\ IsHeading(b) <=> LooksLikeHeading(l)
                    /\ ~LooksLikeHeading(l) => IsBody(b)
                    /\ l[Len(l)] # ":" => IsBody(b)
                    /\ ~IsDigit(l[1]) => IsBody(b)

\* a numbered line without colon became a body paragraph, a line without
\* numbering but with a colon too, and a numbered line with colon a heading
C1_Witness ==
    /\ LoopDone
    /\ \E i, j, k \in DoneLines :
        /\ Trimmed(lines[i]) # << >> /\ Trimmed(lines[j]) # << >>
        /\ IsDigit(Trimmed(lines[i])[1]) /\ Trimmed(lines[i])[Len(Trimmed(lines[i]))] # ":"
        /\ IsBody(document[3 + i])
        /\ ~IsDigit(Trimmed(lines[j])[1]) /\ Trimmed(lines[j])[Len(Trimmed(lines[j]))] = ":"
        /\ IsBody(document[3 + j])
        /\ LooksLikeHeading(Trimmed(lines[k]))
        /\ IsHeading(document[3 + k])

\* the text of a heading up to its first space: the numbering
NumberingOf(text) ==
    SubSeq(text, 1, (CHOOSE k \in 1..Len(text) :
                        text[k] = " " /\ \A j \in 1..(k - 1) : text[j] # " ") - 1)

\* C4: a heading has level 1 when its numbering has no dot and level 2 when
\* it has one or more dots, whatever the depth; "3:" is level 1, "3.2:" and
\* "3.2.1:" are level 2; no line gets another level.
C4_HeadingLevel ==
    InConversion =>
        \A i \in DoneLines :
            LET l == Trimmed(lines[i])
                b == document[3 + i]
            IN  /\ IsHeading(b) =>
                    /\ b.level \in {1, 2}
                    /\ b.level = 1 <=> \A k \in 1..Len(NumberingOf(b.text)) : NumberingOf(b.text)[k] # "."
                    /\ NumberingOf(b.text) = SubSeq(l, 1, Len(NumberingOf(b.text)))
                /\ ~IsHeading(b) => b.level = 0
                /\ l = <<"3", ":">> => IsHeading(b) /\ b.level = 1
                /\ l = <<"3", ".", "2", ":">> => IsHeading(b) /\ b.level = 2
                /\ l = <<"3", ".", "2", ".", "1", ":">> => IsHeading(b) /\ b.level = 2

\* a numbering of depth three was rendered at level 2
C4_Witness ==
    /\ LoopDone
    /\ \E i \in DoneLines :
        /\ Trimmed(lines[i]) = <<"3", ".", "2", ".", "1", ":">>
        /\ IsHeading(document[3 + i])
        /\ document[3 + i].level = 2

\* l is a digits-and-dots numbering followed directly by a colon
BareNumbering(l) ==
    /\ Len(l) >= 2
    /\ l[Len(l)] = ":"
    /\ IsDigit(l[1]) /\ IsDigit(l[Len(l) - 1])
    /\ \A k \in 1..(Len(l) - 1) : IsDigit(l[k]) \/ (l[k] = "." /\ IsDigit(l[k + 1]))

\* C8: a trimmed line that is only a numbering followed by a colon is a
\* heading with an empty title: its text is the numbering and one space.
C8_EmptyTitleHeading ==
    InConversion =>
        \A i \in DoneLines :
            LET l == Trimmed(lines[i])
                b == document[3 + i]
            IN  BareNumbering(l) =>
                    /\ IsHeading(b)
                    /\ b.text = SubSeq(l, 1, Len(l) - 1) \o <<" ">>

\* "2.3:" was rendered as the heading "2.3 "
C8_Witness ==
    /\ LoopDone
    /\ \E i \in DoneLines :
        /\ Trimmed(lines[i]) = <<"2", ".", "3", ":">>
        /\ document[3 + i].text = <<"2", ".", "3", " ">>
        /\ IsHeading(document[3 + i])

\* what the claims call a block: its role, its level and its text
Summary(b) ==
    IF IsTitleBlock(b) THEN <<"title", 0, b.text>>
    ELSE IF IsHeading(b) THEN <<"heading", b.level, b.text>>
    ELSE IF IsBlank(b) THEN <<"blank", 0, << >> >>
    ELSE <<"body", 0, b.text>>

ScenarioABlocks ==
    << <<"title", 0, <<"T", "E", "S", "T">> >>,
       <<"blank", 0, << >> >>,
       <<"blank", 0, << >> >>,
       <<"heading", 1, <<"1", " ", "I", "N", "T", "R", "O", "D", "U", "C", "T", "I", "O", "N">> >>,
       <<"blank", 0, << >> >>,
       <<"body", 0, <<"T", "h", "i", "s", " ", "i", "s", " ", "b", "o", "d", "y", " ", "t", "e", "x", "t", ".">> >>,
       <<"blank", 0, << >> >>,
       <<"heading", 2, <<"1", ".", "1", " ", "B", "A", "C", "K", "G", "R", "O", "U", "N", "D">> >>,
       <<"body", 0, <<"M", "o", "r", "e", " ", "b", "o", "d", "y", " ", "t", "e", "x", "t", ".">> >> >>

\* C2: the text of scenario A with topic "Test" gives the title "TEST", two
\* blanks, the level-1 heading "1 INTRODUCTION", a blank, the body "This is
\* body text.", a blank, the level-2 heading "1.1 BACKGROUND" and the body
\* "More body text.", in this order.
C2_ScenarioA ==
    (Converted /\ topic = ScenarioATopic /\ report_text = Some(ScenarioAText)) =>
        [k \in 1..Len(doc_buffer[1]) |-> Summary(doc_buffer[1][k])] = ScenarioABlocks

\* number of lines of a text: one more than its line breaks
LineCount(t) == 1 + Cardinality({k \in 1..Len(t) : t[k] = "\n"})

\* C3 as stated: the blocks other than the title block are as many as the
\* lines of the input text.
C3_BlocksEqualInputLines ==
    Converted => Len(doc_buffer[1]) - 1 = LineCount(report_text[1])

\* C3 as amended: the blocks other than the title block and the two blank
\* blocks after it are as many as the lines of the text once its leading and
\* trailing whitespace is removed, a text left empty counting as one line.
C3_BlocksEqualTrimmedLines ==
    Converted => Len(doc_buffer[1]) - 3 = LineCount(Trimmed(report_text[1]))

\* a converted text with a blank line in front, one inside and one at the end
C3_Witness ==
    /\ Converted
    /\ LET t == report_text[1]
       IN  /\ FirstInk(t) > 1
           /\ \E k \in 1..FirstInk(t) : t[k] = "\n"
           /\ \E k \in LastInk(t)..Len(t) : t[k] = "\n"
           /\ \E k \in FirstInk(t)..(LastInk(t) - 1) : t[k] = "\n" /\ t[k + 1] = "\n"
    /\ Len(doc_buffer[1]) = 6

\* position of the n-th line break of t (0 for n = 0, Len(t) + 1 past the last)
BreakAt(t, n) ==
    IF n = 0 THEN 0
    ELSE IF n > Cardinality({k \in 1..Len(t) : t[k] = "\n"}) THEN Len(t) + 1
    ELSE CHOOSE p \in 1..Len(t) :
             t[p] = "\n" /\ Cardinality({k \in 1..(p - 1) : t[k] = "\n"}) = n - 1

\* the n-th line of t
LineAt(t, n) == SubSeq(t, BreakAt(t, n - 1) + 1, BreakAt(t, n) - 1)

\* the blocks after the first three mirror the lines of the trimmed text
MirrorsLines ==
    LET t == Trimmed(report_text[1])
        d == doc_buffer[1]
    IN  /\ Len(d) = 3 + LineCount(t)
        /\ IsTitleBlock(d[1]) /\ IsBlank(d[2]) /\ IsBlank(d[3])
        /\ \A n \in 1..LineCount(t) :
            LET l == Trimmed(LineAt(t, n))
                b == d[3 + n]
            IN  /\ IsBlank(b) <=> l = << >>
                /\ IsBody(b) => b.text = l
                /\ IsHeading(b) => LooksLikeHeading(l)
                /\ IsBody(b) \/ LooksLikeHeading(l) \/ l = << >>

\* C10 as stated: the blocks after the title and its two blanks mirror the
\* lines of the trimmed text one for one; blank lines at the very start and
\* end of the text give no block, so the first and the last of these blocks
\* are not blank.
C10_MirrorNoEdgeBlank ==
    Converted =>
        /\ MirrorsLines
        /\ ~IsBlank(doc_buffer[1][4])
        /\ ~IsBlank(doc_buffer[1][Len(doc_buffer[1])])

\* C10 as amended: the same, except that a text that is empty or all
\* whitespace gives exactly one blank block.
C10_MirrorEdgeBlankOnlyIfEmpty ==
    Converted =>
        /\ MirrorsLines
        /\ IF Trimmed(report_text[1]) = << >>
           THEN Len(doc_buffer[1]) = 4 /\ IsBlank(doc_buffer[1][4])
           ELSE /\ ~IsBlank(doc_buffer[1][4])
                /\ ~IsBlank(doc_buffer[1][Len(doc_buffer[1])])

\* a converted text with blank lines around a body line, a whitespace-only
\* line and a heading
C10_Witness ==
    /\ Converted
    /\ report_text = Some(<<"\n", "a", " ", "\n", " ", "\n", "1", ":", "\n", "\n">>)
    /\ [k \in 1..Len(doc_buffer[1]) |-> Summary(doc_buffer[1][k])]
         = << <<"title", 0, Upper(topic)>>, <<"blank", 0, << >> >>, <<"blank", 0, << >> >>,
              <<"body", 0, <<"a">> >>, <<"blank", 0, << >> >>, <<"heading", 1, <<"1", " ">> >> >>

\* positions of ui at which something of this kind was shown
ShownAt(kind) == {k \in 1..Len(ui) : ui[k].kind = kind}

\* C5: when the generation call fails, text_to_word_buffer is not invoked in
\* that run, no download is offered, the message shown is the generation
\* error and not a conversion error, and no text comes with the error.
C5_GenerationErrorStopsRun ==
    error # None =>
        /\ pc = "done"
        /\ fmt_calls = 0
        /\ document = << >> /\ lines = << >> /\ doc_buffer = None /\ word_error = None
        /\ report_text = None
        /\ ShownAt("download") = {} /\ ShownAt("success") = {}
        /\ error[1][1] = "Report Generation Error: "
        /\ ui[Len(ui)] = Shown("error", error[1])
        /\ \A k \in ShownAt("error") : ui[k].msg[1] # "Word Conversion Error: "

\* a run that ended on a failed generation call
C5_Witness ==
    /\ pc = "done"
    /\ error # None
    /\ calls = 1
    /\ ShownAt("error") # {}

\* C6: a run makes exactly one call to the model when the topic is not empty
\* and the initialisation succeeded, whether the call succeeds or fails, and
\* none when the topic is empty or the initialisation fails.
C6_OneCallPerRun ==
    /\ calls \in {0, 1}
    /\ pc \in {"done", "stopped"} => (calls = 1 <=> (topic # << >> /\ model # None))
    /\ pc \in {"text_to_word_buffer", "for_line", "returned"} => calls = 1
    /\ topic = << >> => calls = 0 /\ model = None
    /\ pc = "stopped" => calls = 0 /\ model = None /\ topic # << >>

\* a run that ended after its one call failed
C6_Witness ==
    /\ pc = "done"
    /\ topic # << >>
    /\ model # None
    /\ error # None
    /\ report_text = None
    /\ calls = 1

\* C7: the download file name is the topic with every space and every slash
\* replaced by an underscore, the rest unchanged, followed by "_report.docx";
\* "A/B Test" gives "A_B_Test_report.docx".
C7_FileName ==
    \A k \in ShownAt("download") :
        LET f == ui[k].msg
        IN  /\ Len(f) = Len(topic) + 12
            /\ \A j \in 1..Len(topic) :
                   f[j] = IF topic[j] \in {" ", "/"} THEN "_" ELSE topic[j]
            /\ SubSeq(f, Len(topic) + 1, Len(f))
                 = <<"_", "r", "e", "p", "o", "r", "t", ".", "d", "o", "c", "x">>
            /\ topic = <<"A", "/", "B", " ", "T", "e", "s", "t">> =>
                   f = <<"A", "_", "B", "_", "T", "e", "s", "t", "_", "r", "e", "p", "o", "r", "t", ".", "d", "o", "c", "x">>

\* the download was offered for the topic "A/B Test"
C7_Witness ==
    /\ pc = "done"
    /\ topic = ScenarioCTopic
    /\ ShownAt("download") # {}

\* C9: text_to_word_buffer returns either a buffer and no error or no buffer
\* and a "Word Conversion Error: ..." message; a download is offered only
\* after generation and then conversion both succeeded in the run, and never
\* after a conversion error.
C9_ConversionErrorOrBuffer ==
    /\ (pc \in {"returned", "done"} /\ fmt_calls = 1) =>
           (doc_buffer = None <=> word_error # None)
    /\ fmt_calls = 1 => calls = 1 /\ report_text # None /\ error = None
    /\ word_error # None =>
           /\ word_error[1][1] = "Word Conversion Error: "
           /\ ShownAt("download") = {}
           /\ pc = "done" => ui[Len(ui)] = Shown("error", word_error[1])
    /\ ShownAt("download") # {} =>
           /\ calls = 1 /\ report_text # None /\ error = None
           /\ fmt_calls = 1 /\ doc_buffer # None /\ word_error = None

\* a run that ended on a conversion error
C9_Witness ==
    /\ pc = "done"
    /\ calls = 1 /\ report_text # None
    /\ word_error # None
    /\ doc_buffer = None
    /\ ShownAt("error") # {}
    /\ ShownAt("download") = {}

====
